---------------------------- MODULE Spec2Model ----------------------------
(***************************************************************************)
(* A model of src/server.js (ct-daily): the analytical core behind the     *)
(* GET /api/brief handler.  The state is the snapshot directory, the clock *)
(* and the handler's local variables; every line of the handler that calls *)
(* one of the core functions is one action, and every core function is an  *)
(* operator with the name it has in the source.                            *)
(*                                                                         *)
(* JavaScript values are modelled as follows.                              *)
(*  - A string is the sequence of its characters, so that formatting       *)
(*    (Number.prototype.toFixed) and parsing (parseFloat, parseInt) are    *)
(*    computed and not assumed to be inverse to each other.                *)
(*  - A number that results from a division is an exact fraction           *)
(*    [num, den] with den > 0.  IEEE-754 rounding of the double arithmetic *)
(*    is not modelled: toFixed rounds the exact quotient.                  *)
(*  - NaN is the fraction record with nan = TRUE; every comparison with it *)
(*    is FALSE, as in JavaScript.                                          *)
(***************************************************************************)
EXTENDS Integers, Sequences, FiniteSets

VARIABLES
    dataDir,      \* the snapshot directory: [exists, files, changes]
    now,          \* Date.now() in milliseconds
    pc,           \* the line of the handler that runs next
    hours,        \* hoursBack, the window of the request
    limit,        \* the limit argument of getTopTickers: <<>> when omitted, or <<n>>
    scans,        \* const scans = loadScans(hours)
    allScans,     \* const allScans = loadAllScans()
    sentiment,    \* const sentiment = analyzeSentiment(scans)
    regime,       \* const regime = getRegimeLabel(sentiment.ratio)
    tickers,      \* const tickers = getTopTickers(scans)
    commodities,  \* const commodities = getCommodities(scans)
    fear,         \* const fear = getFearLevel(commodities, scans.length)
    momentum,     \* const momentum = getMomentum(allScans, scans)
    narrative     \* generateNarrative(sentiment, regime, fear, tickers, momentum)

vars == <<dataDir, now, pc, hours, limit, scans, allScans, sentiment, regime,
          tickers, commodities, fear, momentum, narrative>>

\* A local the handler has not assigned yet.
Undefined == "undefined"

-----------------------------------------------------------------------------
(* Sequences *)

RECURSIVE SumSeq(_)
SumSeq(s) == IF s = <<>> THEN 0 ELSE Head(s) + SumSeq(Tail(s))

\* Array.prototype.slice(from, to) with 0-based, end-exclusive indices.
Slice(s, from, to) ==
    LET n  == Len(s)
        f  == IF from < 0 THEN (IF n + from < 0 THEN 0 ELSE n + from)
              ELSE (IF from > n THEN n ELSE from)
        t  == IF to < 0 THEN (IF n + to < 0 THEN 0 ELSE n + to)
              ELSE (IF to > n THEN n ELSE to)
    IN  IF t <= f THEN <<>> ELSE SubSeq(s, f + 1, t)

\* new Date(x).getTime() of a missing or unparseable x: NaN.
TimeNaN == -1

\* The comparator (a, b) => ka - kb says "a before b" when the difference is
\* negative; a NaN difference counts as 0 (a and b compare equal).
KeyBefore(ka, kb) == ka # TimeNaN /\ kb # TimeNaN /\ ka < kb

\* Array.prototype.sort is stable.  The array is given as pairs <<key, item>>;
\* p is placed before the first pair it strictly precedes.
RECURSIVE InsertByKey(_, _)
InsertByKey(p, s) ==
    IF s = <<>> THEN <<p>>
    ELSE IF KeyBefore(p[1], Head(s)[1]) THEN <<p>> \o s
         ELSE <<Head(s)>> \o InsertByKey(p, Tail(s))

RECURSIVE SortByKey(_)
SortByKey(s) ==
    IF s = <<>> THEN <<>>
    ELSE InsertByKey(s[Len(s)], SortByKey(SubSeq(s, 1, Len(s) - 1)))

\* The items of a sequence of pairs <<key, item>>.
Items(s) == [i \in 1..Len(s) |-> s[i][2]]

-----------------------------------------------------------------------------
(* Numbers and strings *)

RECURSIVE Pow10(_)
Pow10(k) == IF k = 0 THEN 1 ELSE 10 * Pow10(k - 1)

Abs(n) == IF n < 0 THEN -n ELSE n

\* The fraction n/d, kept with a positive denominator.  d = 0 does not occur:
\* every division of the source is guarded or divides by a length >= 1.
Frac(n, d) == IF d < 0 THEN [nan |-> FALSE, num |-> -n, den |-> -d]
              ELSE [nan |-> FALSE, num |-> n, den |-> d]

NaN == [nan |-> TRUE, num |-> 0, den |-> 1]

FracDiv(a, b) == Frac(a.num * b.den, a.den * b.num)
FracSub(a, b) == Frac(a.num * b.den - b.num * a.den, a.den * b.den)
FracMul(a, b) == Frac(a.num * b.num, a.den * b.den)

\* a > b, a >= b and a < b on numbers: FALSE as soon as one side is NaN.
NumGT(a, b) == ~a.nan /\ ~b.nan /\ a.num * b.den > b.num * a.den
NumGE(a, b) == ~a.nan /\ ~b.nan /\ a.num * b.den >= b.num * a.den
NumLT(a, b) == ~a.nan /\ ~b.nan /\ a.num * b.den < b.num * a.den

DigitChars == <<"0", "1", "2", "3", "4", "5", "6", "7", "8", "9">>

IsDigit(c) == \E i \in 1..10 : DigitChars[i] = c

DigitVal(c) == (CHOOSE i \in 1..10 : DigitChars[i] = c) - 1

\* The decimal digits of a natural number.
RECURSIVE NatToChars(_)
NatToChars(n) ==
    IF n < 10 THEN <<DigitChars[n + 1]>>
    ELSE Append(NatToChars(n \div 10), DigitChars[(n % 10) + 1])

\* The digits of n, padded with zeros on the left to k characters.
RECURSIVE PadLeft(_, _)
PadLeft(cs, k) == IF Len(cs) >= k THEN cs ELSE PadLeft(<<"0">> \o cs, k)

\* Number.prototype.toFixed(digits) of the number x: the integer n closest to
\* |x| * 10^digits, the larger one on a tie, written with the decimal point
\* and with "-" in front when x < 0.
toFixed(x, digits) ==
    LET scale == Pow10(digits)
        a     == Abs(x.num) * scale
        n     == (2 * a + x.den) \div (2 * x.den)
        whole == NatToChars(n \div scale)
        part  == IF digits = 0 THEN <<>>
                 ELSE <<".">> \o PadLeft(NatToChars(n % scale), digits)
        sign  == IF x.num < 0 THEN <<"-">> ELSE <<>>
    IN  sign \o whole \o part

\* The longest prefix of cs made of decimal digits.
RECURSIVE DigitPrefix(_)
DigitPrefix(cs) ==
    IF cs = <<>> \/ ~IsDigit(Head(cs)) THEN <<>>
    ELSE <<Head(cs)>> \o DigitPrefix(Tail(cs))

RECURSIVE CharsToNat(_)
CharsToNat(cs) ==
    IF cs = <<>> THEN 0
    ELSE 10 * CharsToNat(SubSeq(cs, 1, Len(cs) - 1)) + DigitVal(cs[Len(cs)])

\* parseFloat(string): an optional sign, digits, an optional "." and digits;
\* what follows is ignored, and NaN when no digit was read.
parseFloatChars(cs) ==
    LET neg    == cs # <<>> /\ Head(cs) = "-"
        body   == IF cs # <<>> /\ Head(cs) \in {"-", "+"} THEN Tail(cs) ELSE cs
        whole  == DigitPrefix(body)
        rest   == SubSeq(body, Len(whole) + 1, Len(body))
        part   == IF rest # <<>> /\ Head(rest) = "." THEN DigitPrefix(Tail(rest))
                  ELSE <<>>
        scale  == Pow10(Len(part))
        value  == CharsToNat(whole) * scale + CharsToNat(part)
    IN  IF whole = <<>> /\ part = <<>> THEN NaN
        ELSE Frac(IF neg THEN -value ELSE value, scale)

\* A JavaScript value that is a string, and one that is a number.  A number
\* keeps the characters ToString gives it.
Str(cs) == [type |-> "string", chars |-> cs]
Num(n)  == [type |-> "number", chars |-> NatToChars(n)]

\* The character U+221E (infinity), which the source writes in a literal.
InfinitySymbol == "inf"

\* parseFloat(value): the argument is converted to a string first.
parseFloat(v) == parseFloatChars(v.chars)

-----------------------------------------------------------------------------
(* Snapshots *)

\* One parsed snapshot file.  An optional field is a sequence of length at
\* most one; a keyword map is the sequence of its entries <<key, count>> in
\* insertion order; a ticker symbol is the sequence of its characters.
Scan(ts, sent, tks, macro, ck) ==
    [timestamp |-> ts, sentiment |-> sent, topTickers |-> tks,
     macroKeywords |-> macro, commodityKeywords |-> ck]

\* The timestamp field of a snapshot: a date string that parses to the
\* instant ms, a string that does not parse, or no field at all.
Instant(ms) == [text |-> "date", ms |-> ms]
GarbageTimestamp == [text |-> "garbage", ms |-> 0]
MissingTimestamp == [text |-> "missing", ms |-> 0]

\* new Date(timestamp).getTime(): NaN unless the field parses.
getTime(timestamp) == IF timestamp.text = "date" THEN timestamp.ms ELSE TimeNaN

\* ts >= cutoff on times: FALSE when ts is NaN.
TimeGE(ts, cutoff) == ts # TimeNaN /\ ts >= cutoff

\* One entry of the snapshot directory: whether its name ends with ".json",
\* whether JSON.parse accepts its content, and the parsed content.
File(json, parses, data) == [json |-> json, parses |-> parses, data |-> data]

\* A directory: whether it exists, its entries in readdirSync order, and how
\* many times another process has changed it since the server started.
Dir(exists, files, changes) == [exists |-> exists, files |-> files, changes |-> changes]

\* No directory: what loadScans finds when none of DATA_DIRS exists, and the
\* directory of a run that starts after the loads.
NoDir == Dir(FALSE, <<>>, 0)

\* d.sentiment?.bullish || 0 and d.sentiment?.bearish || 0
Bullish(d) == IF d.sentiment = <<>> THEN 0 ELSE d.sentiment[1].bullish
Bearish(d) == IF d.sentiment = <<>> THEN 0 ELSE d.sentiment[1].bearish

\* scans.reduce((s, d) => s + (d.sentiment?.bullish || 0), 0), and for bearish
SumBullish(ss) == SumSeq([i \in 1..Len(ss) |-> Bullish(ss[i])])
SumBearish(ss) == SumSeq([i \in 1..Len(ss) |-> Bearish(ss[i])])

\* All sequences over S of length at most n.
SeqsUpTo(S, n) == UNION {[1..k -> S] : k \in 0..n}

-----------------------------------------------------------------------------
(* loadScans and loadAllScans, src/server.js 14-52 *)

\* The data of the files that are named *.json and parse, in directory order:
\* readdirSync(...).filter(f => f.endsWith('.json')) and the try/catch around
\* JSON.parse.
RECURSIVE ParsedFiles(_)
ParsedFiles(files) ==
    IF files = <<>> THEN <<>>
    ELSE IF Head(files).json /\ Head(files).parses
           THEN <<Head(files).data>> \o ParsedFiles(Tail(files))
         ELSE ParsedFiles(Tail(files))

\* .sort((a, b) => new Date(a.timestamp) - new Date(b.timestamp))
SortByTimestamp(ss) ==
    Items(SortByKey([i \in 1..Len(ss) |-> <<getTime(ss[i].timestamp), ss[i]>>]))

MsPerHour == 60 * 60 * 1000

\* loadScans without the cutoff test of line 33.
loadScans_NoCutoff(hoursBack) ==
    IF ~dataDir.exists THEN <<>>
    ELSE SortByTimestamp(ParsedFiles(dataDir.files))

loadScans(hoursBack) ==
    IF ~dataDir.exists THEN <<>>
    ELSE
      LET cutoff == now - (hoursBack * MsPerHour)
          InWindow(data) == TimeGE(getTime(data.timestamp), cutoff)
      IN  SortByTimestamp(SelectSeq(ParsedFiles(dataDir.files), InWindow))

loadAllScans ==
    IF ~dataDir.exists THEN <<>>
    ELSE SortByTimestamp(ParsedFiles(dataDir.files))

-----------------------------------------------------------------------------
(* analyzeSentiment, src/server.js 54-70 *)

Zero == Frac(0, 1)

\* x.length || 1
LenOr1(s) == IF Len(s) = 0 THEN 1 ELSE Len(s)

\* The value of ratio when bear is not positive and bull is: the string made
\* of the infinity symbol alone.
InfiniteRatio == Str(<<InfinitySymbol>>)

\* The value of ratio when neither bear nor bull is positive: the string "0".
ZeroRatio == Str(<<"0">>)

\* The result for an empty scan list (line 55): three numbers and a label.
EmptySentiment ==
    [bull |-> Num(0), bear |-> Num(0), ratio |-> Num(0), trend |-> "UNKNOWN"]

analyzeSentiment(ss) ==
    IF Len(ss) = 0 THEN EmptySentiment
    ELSE
      LET bull       == Frac(SumBullish(ss), Len(ss))
          bear       == Frac(SumBearish(ss), Len(ss))
          ratio      == IF NumGT(bear, Zero) THEN Str(toFixed(FracDiv(bull, bear), 2))
                        ELSE IF NumGT(bull, Zero) THEN InfiniteRatio
                        ELSE ZeroRatio
          mid        == Len(ss) \div 2
          firstHalf  == Slice(ss, 0, mid)
          secondHalf == Slice(ss, mid, Len(ss))
          firstBull  == Frac(SumBullish(firstHalf), LenOr1(firstHalf))
          secondBull == Frac(SumBullish(secondHalf), LenOr1(secondHalf))
          trend      == IF NumGT(secondBull, FracMul(firstBull, Frac(11, 10)))
                          THEN "RISING"
                        ELSE IF NumLT(secondBull, FracMul(firstBull, Frac(9, 10)))
                          THEN "DECLINING"
                        ELSE "STABLE"
      IN  [bull |-> Str(toFixed(bull, 1)), bear |-> Str(toFixed(bear, 1)),
           ratio |-> ratio, trend |-> trend]

-----------------------------------------------------------------------------
(* getRegimeLabel, src/server.js 134-142 *)

\* getRegimeLabel with the NEUTRAL bound exclusive (r > 0.67).
getRegimeLabel_ExclusiveBound(ratio) ==
    LET r == parseFloat(ratio)
    IN  IF NumGE(r, Frac(5, 1)) THEN [label |-> "EUPHORIA", color |-> "#00ff88"]
        ELSE IF NumGE(r, Frac(3, 1)) THEN [label |-> "BULLISH", color |-> "#4ade80"]
        ELSE IF NumGE(r, Frac(15, 10))
          THEN [label |-> "LEANING BULL", color |-> "#facc15"]
        ELSE IF NumGT(r, Frac(67, 100)) THEN [label |-> "NEUTRAL", color |-> "#94a3b8"]
        ELSE IF NumGE(r, Frac(33, 100))
          THEN [label |-> "LEANING BEAR", color |-> "#fb923c"]
        ELSE [label |-> "BEARISH", color |-> "#ef4444"]

getRegimeLabel(ratio) ==
    LET r == parseFloat(ratio)
    IN  IF NumGE(r, Frac(5, 1)) THEN [label |-> "EUPHORIA", color |-> "#00ff88"]
        ELSE IF NumGE(r, Frac(3, 1)) THEN [label |-> "BULLISH", color |-> "#4ade80"]
        ELSE IF NumGE(r, Frac(15, 10))
          THEN [label |-> "LEANING BULL", color |-> "#facc15"]
        ELSE IF NumGE(r, Frac(67, 100)) THEN [label |-> "NEUTRAL", color |-> "#94a3b8"]
        ELSE IF NumGE(r, Frac(33, 100))
          THEN [label |-> "LEANING BEAR", color |-> "#fb923c"]
        ELSE [label |-> "BEARISH", color |-> "#ef4444"]

-----------------------------------------------------------------------------
(* getCommodities, src/server.js 87-107 *)

\* A counting object such as commodities = {}: the sequence of its entries
\* <<key, total>> in insertion order.  counts[key] = (counts[key] || 0) + n
RECURSIVE AddCount(_, _, _)
AddCount(counts, key, n) ==
    IF counts = <<>> THEN <<<<key, n>>>>
    ELSE IF Head(counts)[1] = key
           THEN <<<<key, Head(counts)[2] + n>>>> \o Tail(counts)
         ELSE <<Head(counts)>> \o AddCount(Tail(counts), key, n)

\* The macro keywords that count as commodities (line 94).
MacroAllowList == {"gold", "silver", "copper", "oil", "corn", "coffee"}

\* The loop over Object.entries(macro) (lines 93-97).
RECURSIVE AddMacro(_, _)
AddMacro(counts, entries) ==
    IF entries = <<>> THEN counts
    ELSE AddMacro(IF Head(entries)[1] \in MacroAllowList
                    THEN AddCount(counts, Head(entries)[1], Head(entries)[2])
                  ELSE counts,
                  Tail(entries))

\* The loop over Object.entries(ck) (lines 100-102).
RECURSIVE AddAll(_, _)
AddAll(counts, entries) ==
    IF entries = <<>> THEN counts
    ELSE AddAll(AddCount(counts, Head(entries)[1], Head(entries)[2]), Tail(entries))

\* The loop over the scans (lines 89-103).
RECURSIVE CommodityCounts(_, _)
CommodityCounts(counts, ss) ==
    IF ss = <<>> THEN counts
    ELSE CommodityCounts(
           AddAll(AddMacro(counts, Head(ss).macroKeywords), Head(ss).commodityKeywords),
           Tail(ss))

\* Object.entries(counts).sort((a, b) => b[1] - a[1]): descending by total,
\* entries with equal totals in insertion order.
SortDescending(counts) ==
    Items(SortByKey([i \in 1..Len(counts) |-> <<0 - counts[i][2], counts[i]>>]))

\* .map(([name, mentions]) => ({ name, mentions }))
NameMentions(entries) ==
    [i \in 1..Len(entries) |-> [name |-> entries[i][1], mentions |-> entries[i][2]]]

getCommodities(ss) == NameMentions(SortDescending(CommodityCounts(<<>>, ss)))

-----------------------------------------------------------------------------
(* getTopTickers, src/server.js 72-85 *)

\* The marker character a ticker symbol may carry.
Marker == "$"

\* String.prototype.replace(pattern, '') with a string pattern of one
\* character: the first occurrence of c is removed, wherever it is.
RECURSIVE RemoveFirst(_, _)
RemoveFirst(cs, c) ==
    IF cs = <<>> THEN <<>>
    ELSE IF Head(cs) = c THEN Tail(cs)
         ELSE <<Head(cs)>> \o RemoveFirst(Tail(cs), c)

\* Clean without the replace: the symbol as it is.
Clean_NoReplace(ticker) == ticker

\* const clean = ticker.replace('$', '');
Clean(ticker) == RemoveFirst(ticker, Marker)

\* The loop over the pairs of one scan (lines 76-79 and 164-167).
RECURSIVE AddTickers(_, _)
AddTickers(counts, pairs) ==
    IF pairs = <<>> THEN counts
    ELSE AddTickers(AddCount(counts, Clean(Head(pairs)[1]), Head(pairs)[2]),
                    Tail(pairs))

\* The loop over the scans (lines 74-80).
RECURSIVE TickerCounts(_, _)
TickerCounts(counts, ss) ==
    IF ss = <<>> THEN counts
    ELSE TickerCounts(AddTickers(counts, Head(ss).topTickers), Tail(ss))

\* The default of the limit parameter.
DefaultLimit == 15

getTopTickers(ss, lim) ==
    LET l == IF lim = <<>> THEN DefaultLimit ELSE lim[1]
    IN  NameMentions(Slice(SortDescending(TickerCounts(<<>>, ss)), 0, l))

-----------------------------------------------------------------------------
(* getFearLevel, src/server.js 144-151 *)

\* commodities.find(c => c.name === 'gold')?.mentions || 0
RECURSIVE GoldMentions(_)
GoldMentions(cs) ==
    IF cs = <<>> THEN 0
    ELSE IF Head(cs).name = "gold" THEN Head(cs).mentions
         ELSE GoldMentions(Tail(cs))

\* getFearLevel with the HIGH bound exclusive (perScan > 3).
getFearLevel_ExclusiveBound(cs, scanCount) ==
    LET goldMentions == GoldMentions(cs)
        perScan      == IF scanCount > 0 THEN Frac(goldMentions, scanCount) ELSE Zero
    IN  IF NumGE(perScan, Frac(5, 1)) THEN [level |-> "EXTREME", color |-> "#ef4444"]
        ELSE IF NumGT(perScan, Frac(3, 1)) THEN [level |-> "HIGH", color |-> "#f97316"]
        ELSE IF NumGE(perScan, Frac(15, 10))
          THEN [level |-> "ELEVATED", color |-> "#eab308"]
        ELSE [level |-> "NORMAL", color |-> "#22c55e"]

getFearLevel(cs, scanCount) ==
    LET goldMentions == GoldMentions(cs)
        perScan      == IF scanCount > 0 THEN Frac(goldMentions, scanCount) ELSE Zero
    IN  IF NumGE(perScan, Frac(5, 1)) THEN [level |-> "EXTREME", color |-> "#ef4444"]
        ELSE IF NumGE(perScan, Frac(3, 1)) THEN [level |-> "HIGH", color |-> "#f97316"]
        ELSE IF NumGE(perScan, Frac(15, 10))
          THEN [level |-> "ELEVATED", color |-> "#eab308"]
        ELSE [level |-> "NORMAL", color |-> "#22c55e"]

-----------------------------------------------------------------------------
(* getMomentum, src/server.js 153-192 *)

\* One entry of getMomentum's result (lines 184 and 187).
MomentumEntry(ticker, recentRate, priorRate, change, direction) ==
    [ticker |-> ticker, recentRate |-> recentRate, priorRate |-> priorRate,
     change |-> change, direction |-> direction]

\* The guard of line 154: the least history and the least recent window.
MinAllScans == 40
MinRecentScans == 10

\* The two counting objects after the loop over allScans (lines 161-168): a
\* scan counts as recent when its time is at least recentStart, and as prior
\* otherwise, also when its time is NaN.
RECURSIVE Buckets(_, _, _)
Buckets(acc, ss, recentStart) ==
    IF ss = <<>> THEN acc
    ELSE LET scan == Head(ss)
             ts   == getTime(scan.timestamp)
         IN  Buckets(IF TimeGE(ts, recentStart)
                       THEN [acc EXCEPT !.recent = AddTickers(@, scan.topTickers)]
                     ELSE [acc EXCEPT !.prior = AddTickers(@, scan.topTickers)],
                     Tail(ss), recentStart)

\* counts[key] || 0
RECURSIVE CountOf(_, _)
CountOf(counts, key) ==
    IF counts = <<>> THEN 0
    ELSE IF Head(counts)[1] = key THEN Head(counts)[2]
         ELSE CountOf(Tail(counts), key)

\* new Set([...Object.keys(recentTickers), ...Object.keys(priorTickers)]) in
\* iteration order: the recent keys, then the prior keys not seen yet.
AllTickers(recentTickers, priorTickers) ==
    LET r == [i \in 1..Len(recentTickers) |-> recentTickers[i][1]]
        NotRecent(key) == \A i \in 1..Len(r) : r[i] # key
    IN  r \o SelectSeq([i \in 1..Len(priorTickers) |-> priorTickers[i][1]], NotRecent)

\* Number(string) and parseInt(string) on the result of toFixed(0): a whole
\* number.
ToInt(cs) == LET v == parseFloatChars(cs) IN v.num \div v.den

\* allScans.length - recentScans.length || 1 (line 179): 1 in place of 0 only;
\* a negative difference stays.
PriorDenominator(allLen, recentLen) ==
    IF allLen - recentLen = 0 THEN 1 ELSE allLen - recentLen

\* The body of the loop over the tickers with an inclusive bound (>= 30).
TickerResult_Inclusive(ticker, recent, prior, recentLen, allLen) ==
    IF recent + prior < 5 THEN <<>>
    ELSE
      LET recentRate == Frac(recent, recentLen)
          priorLen   == PriorDenominator(allLen, recentLen)
          priorRate  == Frac(prior, priorLen)
      IN  IF NumGT(priorRate, Zero)
            THEN LET change ==
                       toFixed(FracMul(FracDiv(FracSub(recentRate, priorRate), priorRate),
                                       Frac(100, 1)), 0)
                 IN  IF Abs(ToInt(change)) >= 30
                       THEN <<MomentumEntry(ticker, Str(toFixed(recentRate, 2)),
                                            Str(toFixed(priorRate, 2)), ToInt(change),
                                            IF ToInt(change) > 0 THEN "up" ELSE "down")>>
                     ELSE <<>>
          ELSE IF recent >= 3
            THEN <<MomentumEntry(ticker, Str(toFixed(recentRate, 2)),
                                 Str(<<"0", ".", "0", "0">>), 999, "new")>>
          ELSE <<>>

\* The body of the loop over the tickers (lines 174-188): no entry or one.
TickerResult(ticker, recent, prior, recentLen, allLen) ==
    IF recent + prior < 5 THEN <<>>
    ELSE
      LET recentRate == Frac(recent, recentLen)
          priorLen   == PriorDenominator(allLen, recentLen)
          priorRate  == Frac(prior, priorLen)
      IN  IF NumGT(priorRate, Zero)
            THEN LET change ==
                       toFixed(FracMul(FracDiv(FracSub(recentRate, priorRate), priorRate),
                                       Frac(100, 1)), 0)
                 IN  IF Abs(ToInt(change)) > 30
                       THEN <<MomentumEntry(ticker, Str(toFixed(recentRate, 2)),
                                            Str(toFixed(priorRate, 2)), ToInt(change),
                                            IF ToInt(change) > 0 THEN "up" ELSE "down")>>
                     ELSE <<>>
          ELSE IF recent >= 3
            THEN <<MomentumEntry(ticker, Str(toFixed(recentRate, 2)),
                                 Str(<<"0", ".", "0", "0">>), 999, "new")>>
          ELSE <<>>

\* The loop over allTickers (lines 173-189): the results in iteration order.
RECURSIVE TickerResults(_, _, _, _)
TickerResults(names, buckets, recentLen, allLen) ==
    IF names = <<>> THEN <<>>
    ELSE TickerResult(Head(names), CountOf(buckets.recent, Head(names)),
                      CountOf(buckets.prior, Head(names)), recentLen, allLen)
           \o TickerResults(Tail(names), buckets, recentLen, allLen)

\* results.sort((a, b) => Math.abs(b.change) - Math.abs(a.change))
SortByChange(results) ==
    Items(SortByKey([i \in 1..Len(results) |-> <<0 - Abs(results[i].change), results[i]>>]))

\* getMomentum past the guard with the cut before the sort: the first 12
\* results in iteration order, sorted.
MomentumOf_SliceFirst(all, recentScans) ==
    LET recentStart == getTime(recentScans[1].timestamp)
        buckets     == Buckets([recent |-> <<>>, prior |-> <<>>], all, recentStart)
        results     == TickerResults(AllTickers(buckets.recent, buckets.prior), buckets,
                                     Len(recentScans), Len(all))
    IN  SortByChange(Slice(results, 0, 12))

\* What getMomentum returns once the guard has passed (lines 156-191).
MomentumOf(all, recentScans) ==
    LET recentStart == getTime(recentScans[1].timestamp)
        buckets     == Buckets([recent |-> <<>>, prior |-> <<>>], all, recentStart)
        results     == TickerResults(AllTickers(buckets.recent, buckets.prior), buckets,
                                     Len(recentScans), Len(all))
    IN  Slice(SortByChange(results), 0, 12)

\* getMomentum with a guard that needs both lists to be short.
getMomentum_BothShort(all, recentScans) ==
    IF Len(all) < MinAllScans /\ Len(recentScans) < MinRecentScans THEN <<>>
    ELSE IF Len(recentScans) = 0 THEN <<>>
    ELSE MomentumOf(all, recentScans)

getMomentum(all, recentScans) ==
    IF Len(all) < MinAllScans \/ Len(recentScans) < MinRecentScans THEN <<>>
    ELSE MomentumOf(all, recentScans)

-----------------------------------------------------------------------------
(* generateNarrative, src/server.js 194-227 *)

\* A text is the sequence of its fragments: literal pieces of the templates
\* and single characters of the values put into them.

\* String.prototype.toLowerCase on the trend labels.
toLowerCase(trend) ==
    CASE trend = "RISING" -> "rising"
      [] trend = "DECLINING" -> "declining"
      [] trend = "STABLE" -> "stable"
      [] trend = "UNKNOWN" -> "unknown"

\* Array.prototype.join(sep) on texts.
RECURSIVE Join(_, _)
Join(parts, sep) ==
    IF parts = <<>> THEN <<>>
    ELSE IF Len(parts) = 1 THEN parts[1]
         ELSE parts[1] \o <<sep>> \o Join(Tail(parts), sep)

\* The opening sentences (lines 198-206).
OpeningEuphoria ==
    <<"CT is running hot. Multiple signals pointing toward risk-on euphoria.">>
OpeningBullish(sent) ==
    <<"Structural optimism holds with a ">> \o sent.ratio.chars
      \o <<":1 bull/bear ratio, though the mood is ", toLowerCase(sent.trend), ".">>
OpeningNeutral ==
    <<"Markets are in wait-and-see mode. Neither conviction nor fear dominating.">>
OpeningCaution == <<"Caution dominates. Bears have the floor.">>

\* The fear sentences (lines 209-213).
FearExtreme ==
    <<"Gold mentions are at extreme levels - historically this precedes volatility, not necessarily direction.">>
FearHigh ==
    <<"The fear gauge is elevated. Commodity mentions suggest macro uncertainty is on traders' minds.">>

\* m.direction === 'up' || m.direction === 'new', and m.direction === 'down'
IsRising(e) == e.direction = "up" \/ e.direction = "new"
IsFalling(e) == e.direction = "down"

\* list.map(m => '$' + m.ticker).join(', ')
TickerList(list) == Join([i \in 1..Len(list) |-> <<Marker>> \o list[i].ticker], ", ")

\* generateNarrative with a rising filter that forgets direction "new".
generateNarrative_UpOnly(sent, reg, fr, tks, mom) ==
    LET opening == IF reg.label = "EUPHORIA" THEN OpeningEuphoria
                   ELSE IF reg.label = "BULLISH" THEN OpeningBullish(sent)
                   ELSE IF reg.label = "NEUTRAL" THEN OpeningNeutral
                   ELSE OpeningCaution
        gauge   == IF fr.level = "EXTREME" THEN <<FearExtreme>>
                   ELSE IF fr.level = "HIGH" THEN <<FearHigh>>
                   ELSE <<>>
        rising  == Slice(SelectSeq(mom, LAMBDA e : e.direction = "up"), 0, 3)
        falling == Slice(SelectSeq(mom, IsFalling), 0, 3)
        up      == IF Len(rising) # 0
                     THEN <<<<"Attention building on ">> \o TickerList(rising) \o <<".">>>>
                   ELSE <<>>
        down    == IF Len(falling) # 0
                     THEN <<<<"Narrative fading for ">> \o TickerList(falling) \o <<".">>>>
                   ELSE <<>>
    IN  Join(<<opening>> \o gauge \o up \o down, " ")

generateNarrative(sent, reg, fr, tks, mom) ==
    LET opening == IF reg.label = "EUPHORIA" THEN OpeningEuphoria
                   ELSE IF reg.label = "BULLISH" THEN OpeningBullish(sent)
                   ELSE IF reg.label = "NEUTRAL" THEN OpeningNeutral
                   ELSE OpeningCaution
        gauge   == IF fr.level = "EXTREME" THEN <<FearExtreme>>
                   ELSE IF fr.level = "HIGH" THEN <<FearHigh>>
                   ELSE <<>>
        rising  == Slice(SelectSeq(mom, IsRising), 0, 3)
        falling == Slice(SelectSeq(mom, IsFalling), 0, 3)
        up      == IF Len(rising) # 0
                     THEN <<<<"Attention building on ">> \o TickerList(rising) \o <<".">>>>
                   ELSE <<>>
        down    == IF Len(falling) # 0
                     THEN <<<<"Narrative fading for ">> \o TickerList(falling) \o <<".">>>>
                   ELSE <<>>
    IN  Join(<<opening>> \o gauge \o up \o down, " ")

-----------------------------------------------------------------------------
(* The handler of GET /api/brief, src/server.js 734-756: one action a line *)

\* const scans = loadScans(hours);
LoadScans ==
    /\ pc = "loadScans"
    /\ scans' = loadScans(hours)
    /\ pc' = "loadAllScans"
    /\ UNCHANGED <<dataDir, now, hours, limit, allScans, sentiment, regime, tickers,
                   commodities, fear, momentum, narrative>>

\* const allScans = loadAllScans();
LoadAllScans ==
    /\ pc = "loadAllScans"
    /\ allScans' = loadAllScans
    /\ pc' = "analyzeSentiment"
    /\ UNCHANGED <<dataDir, now, hours, limit, scans, sentiment, regime, tickers,
                   commodities, fear, momentum, narrative>>

\* const sentiment = analyzeSentiment(scans);
AnalyzeSentiment ==
    /\ pc = "analyzeSentiment"
    /\ sentiment' = analyzeSentiment(scans)
    /\ pc' = "getRegimeLabel"
    /\ UNCHANGED <<dataDir, now, hours, limit, scans, allScans, regime, tickers,
                   commodities, fear, momentum, narrative>>

\* const regime = getRegimeLabel(sentiment.ratio);
GetRegimeLabel ==
    /\ pc = "getRegimeLabel"
    /\ regime' = getRegimeLabel(sentiment.ratio)
    /\ pc' = "getTopTickers"
    /\ UNCHANGED <<dataDir, now, hours, limit, scans, allScans, sentiment, tickers,
                   commodities, fear, momentum, narrative>>

\* const tickers = getTopTickers(scans);
GetTopTickers ==
    /\ pc = "getTopTickers"
    /\ tickers' = getTopTickers(scans, limit)
    /\ pc' = "getCommodities"
    /\ UNCHANGED <<dataDir, now, hours, limit, scans, allScans, sentiment, regime,
                   commodities, fear, momentum, narrative>>

\* const commodities = getCommodities(scans);
GetCommodities ==
    /\ pc = "getCommodities"
    /\ commodities' = getCommodities(scans)
    /\ pc' = "getFearLevel"
    /\ UNCHANGED <<dataDir, now, hours, limit, scans, allScans, sentiment, regime,
                   tickers, fear, momentum, narrative>>

\* const fear = getFearLevel(commodities, scans.length);
GetFearLevel ==
    /\ pc = "getFearLevel"
    /\ fear' = getFearLevel(commodities, Len(scans))
    /\ pc' = "getMomentum"
    /\ UNCHANGED <<dataDir, now, hours, limit, scans, allScans, sentiment, regime,
                   tickers, commodities, momentum, narrative>>

\* const momentum = getMomentum(allScans, scans);
GetMomentum ==
    /\ pc = "getMomentum"
    /\ momentum' = getMomentum(allScans, scans)
    /\ pc' = "generateNarrative"
    /\ UNCHANGED <<dataDir, now, hours, limit, scans, allScans, sentiment, regime,
                   tickers, commodities, fear, narrative>>

\* narrative: generateNarrative(sentiment, regime, fear, tickers, momentum)
GenerateNarrative ==
    /\ pc = "generateNarrative"
    /\ narrative' = generateNarrative(sentiment, regime, fear, tickers, momentum)
    /\ pc' = "done"
    /\ UNCHANGED <<dataDir, now, hours, limit, scans, allScans, sentiment, regime,
                   tickers, commodities, fear, momentum>>

-----------------------------------------------------------------------------
(* The sentiment aggregator and the regime classifier on bounded inputs *)

\* The longest scan list of the sentiment inputs.
MaxSentimentScans == 3

\* The bullish and bearish percentages of the sentiment inputs.
SentimentValues == {0, 10, 80}

\* The snapshots of the sentiment inputs: the sentiment field absent, or with
\* both percentages.
SentimentScans ==
    {Scan(Instant(0), <<>>, <<>>, <<>>, <<>>)} \cup
    {Scan(Instant(0), <<[bullish |-> b, bearish |-> r]>>, <<>>, <<>>, <<>>) :
        b \in SentimentValues, r \in SentimentValues}

InitSentiment ==
    /\ scans \in SeqsUpTo(SentimentScans, MaxSentimentScans)
    /\ pc = "analyzeSentiment"
    /\ dataDir = NoDir /\ now = 0 /\ hours = 24 /\ limit = <<>>
    /\ allScans = Undefined /\ sentiment = Undefined /\ regime = Undefined
    /\ tickers = Undefined /\ commodities = Undefined /\ fear = Undefined
    /\ momentum = Undefined /\ narrative = Undefined

NextSentiment == AnalyzeSentiment \/ GetRegimeLabel

SpecSentiment == InitSentiment /\ [][NextSentiment]_vars

\* C1: for every non-empty snapshot list in which every bearish value is 0 or
\* absent and the mean bullish value is positive, the ratio is the infinity
\* symbol and the regime of that ratio is EUPHORIA.
C1_InfiniteRatioIsEuphoria ==
    (/\ pc = "getTopTickers"
     /\ Len(scans) > 0
     /\ \A i \in 1..Len(scans) : Bearish(scans[i]) = 0
     /\ SumBullish(scans) > 0)
    => (sentiment.ratio = InfiniteRatio /\ regime.label = "EUPHORIA")

\* C6: for an empty snapshot list the result is bull = 0, bear = 0, trend
\* UNKNOWN and the ratio is the string "0", the value the ratio has for a
\* non-empty list whose two means are zero.
C6_EmptyRatioIsStringZero ==
    (pc = "getRegimeLabel" /\ Len(scans) = 0)
    => (/\ sentiment.bull = Num(0)
        /\ sentiment.bear = Num(0)
        /\ sentiment.trend = "UNKNOWN"
        /\ sentiment.ratio = ZeroRatio
        /\ sentiment.ratio =
             analyzeSentiment(<<Scan(Instant(0), <<>>, <<>>, <<>>, <<>>)>>).ratio)

-----------------------------------------------------------------------------
(* The regime classifier on every two-decimal ratio up to a bound *)

\* The largest ratio of the regime inputs, in hundredths.
MaxRatioHundredths == 510

\* The ratio string analyzeSentiment writes for h hundredths.
RatioString(h) == Str(toFixed(Frac(h, 100), 2))

\* The ratios analyzeSentiment can return.
RatioInputs ==
    {RatioString(h) : h \in 0..MaxRatioHundredths}
      \cup {InfiniteRatio, ZeroRatio, Num(0)}

InitRegime ==
    /\ sentiment \in [bull : {Str(toFixed(Zero, 1))}, bear : {Str(toFixed(Zero, 1))},
                      ratio : RatioInputs, trend : {"STABLE"}]
    /\ pc = "getRegimeLabel"
    /\ dataDir = NoDir /\ now = 0 /\ hours = 24 /\ limit = <<>>
    /\ scans = Undefined /\ allScans = Undefined /\ regime = Undefined
    /\ tickers = Undefined /\ commodities = Undefined /\ fear = Undefined
    /\ momentum = Undefined /\ narrative = Undefined

NextRegime == GetRegimeLabel

SpecRegime == InitRegime /\ [][NextRegime]_vars

\* The label the regime table gives h hundredths: inclusive lower bounds,
\* tested from the top.
ExpectedRegime(h) ==
    IF h >= 500 THEN "EUPHORIA"
    ELSE IF h >= 300 THEN "BULLISH"
    ELSE IF h >= 150 THEN "LEANING BULL"
    ELSE IF h >= 67 THEN "NEUTRAL"
    ELSE IF h >= 33 THEN "LEANING BEAR"
    ELSE "BEARISH"

\* The labels from the most bearish to the most bullish.
RegimeOrder ==
    <<"BEARISH", "LEANING BEAR", "NEUTRAL", "LEANING BULL", "BULLISH", "EUPHORIA">>

RegimeRank(label) == CHOOSE i \in 1..Len(RegimeOrder) : RegimeOrder[i] = label

\* The display colour of each label.
RegimeColor(label) ==
    CASE label = "EUPHORIA" -> "#00ff88"
      [] label = "BULLISH" -> "#4ade80"
      [] label = "LEANING BULL" -> "#facc15"
      [] label = "NEUTRAL" -> "#94a3b8"
      [] label = "LEANING BEAR" -> "#fb923c"
      [] label = "BEARISH" -> "#ef4444"

\* C7: for every numeric ratio r >= 0 the label is the one of the table
\* (r >= 5 EUPHORIA, >= 3 BULLISH, >= 1.5 LEANING BULL, >= 0.67 NEUTRAL,
\* >= 0.33 LEANING BEAR, else BEARISH), the label does not decrease when r
\* grows, and each label carries its one colour.
C7_RegimeThresholds ==
    pc = "getTopTickers" =>
      \A h \in 0..MaxRatioHundredths :
        sentiment.ratio = RatioString(h) =>
          /\ regime.label = ExpectedRegime(h)
          /\ regime.label \in {RegimeOrder[i] : i \in 1..Len(RegimeOrder)}
          /\ regime.color = RegimeColor(regime.label)
          /\ RegimeRank(regime.label)
               <= RegimeRank(getRegimeLabel(RatioString(h + 1)).label)

\* The boundary ratio 0.67 was classified, as NEUTRAL.
C7_Witness ==
    /\ pc = "getTopTickers"
    /\ sentiment.ratio = Str(<<"0", ".", "6", "7">>)
    /\ regime.label = "NEUTRAL"

-----------------------------------------------------------------------------
(* The fear classifier on bounded commodity rankings and scan counts *)

\* The largest number of gold mentions, and of scans, of the fear inputs.
MaxGoldMentions == 16
MaxFearScans == 5

\* A snapshot without content.
BlankScan == Scan(Instant(0), <<>>, <<>>, <<>>, <<>>)

\* The rankings getCommodities returns for one snapshot that mentions silver
\* 4 times and gold g times, gold alone, silver alone, or nothing.
CommodityRankings ==
    {getCommodities(<<Scan(Instant(0), <<>>, <<>>, macro, <<>>)>>) :
        macro \in {<<>>, <<<<"silver", 4>>>>}
                    \cup {<<<<"gold", g>>>> : g \in 0..MaxGoldMentions}
                    \cup {<<<<"silver", 4>>, <<"gold", g>>>> : g \in 0..MaxGoldMentions}}

InitFear ==
    /\ commodities \in CommodityRankings
    /\ scans \in {[i \in 1..k |-> BlankScan] : k \in 0..MaxFearScans}
    /\ pc = "getFearLevel"
    /\ dataDir = NoDir /\ now = 0 /\ hours = 24 /\ limit = <<>>
    /\ allScans = Undefined /\ sentiment = Undefined /\ regime = Undefined
    /\ tickers = Undefined /\ fear = Undefined
    /\ momentum = Undefined /\ narrative = Undefined

NextFear == GetFearLevel

SpecFear == InitFear /\ [][NextFear]_vars

\* The mentions of the entries named gold: 0 when there is none.
GoldTotal(cs) ==
    SumSeq([i \in 1..Len(cs) |-> IF cs[i].name = "gold" THEN cs[i].mentions ELSE 0])

\* The level of g gold mentions over n scans: the rate g / n, 0 when n = 0,
\* against the bounds 5, 3 and 1.5.
ExpectedFear(g, n) ==
    IF n = 0 THEN "NORMAL"
    ELSE IF g >= 5 * n THEN "EXTREME"
    ELSE IF g >= 3 * n THEN "HIGH"
    ELSE IF 2 * g >= 3 * n THEN "ELEVATED"
    ELSE "NORMAL"

\* C8: for every commodity ranking and scan count, the fear level is the one
\* of perScan = gold mentions / scanCount (0 when scanCount = 0): EXTREME when
\* perScan >= 5, HIGH when >= 3, ELEVATED when >= 1.5, else NORMAL.
C8_FearThresholds ==
    pc = "getMomentum" =>
      fear.level = ExpectedFear(GoldTotal(commodities), Len(scans))

\* Gold 15 over 5 scans was classified, as HIGH.
C8_Witness ==
    /\ pc = "getMomentum"
    /\ GoldTotal(commodities) = 15
    /\ Len(scans) = 5
    /\ fear.level = "HIGH"

-----------------------------------------------------------------------------
(* The ticker aggregator on bounded snapshot lists and limits *)

\* The longest scan list, and the largest explicit limit, of the ticker inputs.
MaxTickerScans == 2
MaxLimit == 3

\* The pairs (symbol, count) of the ticker inputs: B with and without the
\* marker, and two more symbols.
TickerPairs ==
    {<<<<Marker, "B">>, 10>>, <<<<"B">>, 5>>, <<<<Marker, "E">>, 5>>, <<<<"S">>, 10>>}

\* The snapshots of the ticker inputs: up to two pairs each.
TickerScans == {Scan(Instant(0), <<>>, tks, <<>>, <<>>) : tks \in SeqsUpTo(TickerPairs, 2)}

InitTickers ==
    /\ scans \in SeqsUpTo(TickerScans, MaxTickerScans)
    /\ limit \in {<<>>} \cup {<<n>> : n \in 0..MaxLimit}
    /\ pc = "getTopTickers"
    /\ dataDir = NoDir /\ now = 0 /\ hours = 24
    /\ allScans = Undefined /\ sentiment = Undefined /\ regime = Undefined
    /\ tickers = Undefined /\ commodities = Undefined /\ fear = Undefined
    /\ momentum = Undefined /\ narrative = Undefined

NextTickers == GetTopTickers

SpecTickers == InitTickers /\ [][NextTickers]_vars

\* The normalized symbol: the symbol without its leading marker.
Normalized(symbol) ==
    IF symbol # <<>> /\ Head(symbol) = Marker THEN Tail(symbol) ELSE symbol

\* The pairs of all the scans of a list, in order.
RECURSIVE AllPairs(_)
AllPairs(ss) == IF ss = <<>> THEN <<>> ELSE Head(ss).topTickers \o AllPairs(Tail(ss))

\* The sum of the counts of the pairs whose normalized symbol is name.
TotalOf(name, pairs) ==
    SumSeq([i \in 1..Len(pairs) |->
              IF Normalized(pairs[i][1]) = name THEN pairs[i][2] ELSE 0])

\* The normalized symbols of a list of pairs.
NamesOf(pairs) == {Normalized(pairs[i][1]) : i \in 1..Len(pairs)}

Min(a, b) == IF a < b THEN a ELSE b

-----------------------------------------------------------------------------
(* The narrative composer on bounded classifications and momentum lists *)

\* The longest momentum list of the narrative inputs.
MaxNarrativeMomentum == 4

\* The kinds of entry of the narrative inputs: a ticker up by 1500%, a new
\* one, one up by 60% and one down by 60%.
EntryKinds ==
    {<<1500, "up">>, <<999, "new">>, <<60, "up">>, <<0 - 60, "down">>}

\* The ticker of the i-th entry: a letter of its own.
TickerLetters == <<"A", "B", "C", "D", "E", "F">>

\* The momentum lists of the narrative inputs: entries of these kinds, each
\* with its own ticker, in the order getMomentum returns (|change| descending).
NarrativeMomentum ==
    LET kindLists == {ks \in SeqsUpTo(EntryKinds, MaxNarrativeMomentum) :
                        \A i \in 1..(Len(ks) - 1) : Abs(ks[i][1]) >= Abs(ks[i + 1][1])}
    IN  {[i \in 1..Len(ks) |->
            MomentumEntry(<<TickerLetters[i]>>, Str(toFixed(Frac(1, 2), 2)),
                          Str(toFixed(Frac(1, 4), 2)), ks[i][1], ks[i][2])] :
         ks \in kindLists}

\* The sentiments of the narrative inputs: one ratio for each regime.
NarrativeSentiments ==
    [bull : {Str(toFixed(Frac(50, 1), 1))}, bear : {Str(toFixed(Frac(50, 1), 1))},
     ratio : {RatioString(h) : h \in {20, 40, 100, 200, 350, 600}},
     trend : {"RISING", "STABLE"}]

\* The four results of getFearLevel.
FearLevels ==
    {getFearLevel(<<[name |-> "gold", mentions |-> g]>>, 2) : g \in {0, 3, 6, 10}}

InitNarrative ==
    /\ sentiment \in NarrativeSentiments
    /\ regime = getRegimeLabel(sentiment.ratio)
    /\ fear \in FearLevels
    /\ momentum \in NarrativeMomentum
    /\ tickers = <<>>
    /\ pc = "generateNarrative"
    /\ dataDir = NoDir /\ now = 0 /\ hours = 24 /\ limit = <<>>
    /\ scans = Undefined /\ allScans = Undefined /\ commodities = Undefined
    /\ narrative = Undefined

NextNarrative == GenerateNarrative

SpecNarrative == InitNarrative /\ [][NextNarrative]_vars

\* The positions of the entries of the momentum list with a direction of ds.
PositionsOf(ds) == {i \in 1..Len(momentum) : momentum[i].direction \in ds}

\* The position of the k-th entry with a direction of ds.
NthOf(ds, k) ==
    CHOOSE i \in PositionsOf(ds) : Cardinality({j \in PositionsOf(ds) : j <= i}) = k

\* The sentence that starts with lead and lists the first up to 3 tickers
\* with a direction of ds, "$" in front of each and ", " between them; no
\* sentence when there is no such ticker.
ListSentence(lead, ds) ==
    LET n == Min(3, Cardinality(PositionsOf(ds)))
    IN  IF n = 0 THEN <<>>
        ELSE <<<<lead>>
                 \o Join([k \in 1..n |-> <<"$">> \o momentum[NthOf(ds, k)].ticker], ", ")
                 \o <<".">>>>

\* The number of single-space separators of a text.
Separators(text) == Cardinality({i \in 1..Len(text) : text[i] = " "})

\* C10: the narrative is one opening sentence, then a fear sentence iff the
\* level is EXTREME or HIGH, then "Attention building on" with the first up
\* to 3 up/new tickers iff there is one, then "Narrative fading for" with the
\* first up to 3 down tickers iff there is one, in that order, joined by
\* single spaces: 1 to 4 sentences and no empty fragment.
C10_NarrativeShape ==
    pc = "done" =>
      LET fearPart == IF fear.level = "EXTREME" THEN <<FearExtreme>>
                      ELSE IF fear.level = "HIGH" THEN <<FearHigh>>
                      ELSE <<>>
          rest     == fearPart
                        \o ListSentence("Attention building on ", {"up", "new"})
                        \o ListSentence("Narrative fading for ", {"down"})
      IN  /\ \E opening \in {OpeningEuphoria, OpeningBullish(sentiment),
                             OpeningNeutral, OpeningCaution} :
               narrative = Join(<<opening>> \o rest, " ")
          /\ Separators(narrative) = Len(rest)
          /\ Separators(narrative) \in 0..3
          /\ narrative[1] # " " /\ narrative[Len(narrative)] # " "
          /\ \A i \in 1..(Len(narrative) - 1) :
               ~(narrative[i] = " " /\ narrative[i + 1] = " ")
          /\ (fear.level \in {"NORMAL", "ELEVATED"} =>
                \A i \in 1..Len(narrative) : narrative[i] \notin {FearExtreme[1], FearHigh[1]})

\* A narrative of 4 sentences was composed from a HIGH fear level and a list
\* of three rising tickers, the second of them new, and a falling one.
C10_Witness ==
    /\ pc = "done"
    /\ fear.level = "HIGH"
    /\ Len(momentum) = 4
    /\ momentum[1].direction = "up" /\ momentum[2].direction = "new"
    /\ momentum[3].direction = "down" /\ momentum[4].direction = "up"
    /\ Separators(narrative) = 3
    /\ \E i \in 1..Len(narrative) : narrative[i] = "Narrative fading for "

-----------------------------------------------------------------------------
(* The windowing of loadScans on bounded directories *)

\* The largest number of directory entries of the windowing inputs.
MaxFiles == 3

\* The clock of the windowing inputs: 100 hours after the epoch.
WindowNow == 100 * MsPerHour

\* The timestamps of the windowing inputs: around the cutoffs of 1, 24 and 48
\* hours, and not a date.
WindowTimestamps ==
    {Instant(WindowNow - 1), Instant(WindowNow - MsPerHour),
     Instant(WindowNow - MsPerHour - 1), Instant(WindowNow - (24 * MsPerHour)),
     Instant(WindowNow - (24 * MsPerHour) - 1), Instant(WindowNow - (60 * MsPerHour)),
     GarbageTimestamp, MissingTimestamp}

\* The directory entries of the windowing inputs: a snapshot for each
\* timestamp, a second snapshot of the same instant, a *.json file that does
\* not parse and a file of another name.
WindowFiles ==
    {File(TRUE, TRUE, Scan(t, <<>>, <<>>, <<>>, <<>>)) : t \in WindowTimestamps}
      \cup {File(TRUE, TRUE,
                 Scan(Instant(WindowNow - MsPerHour), <<>>, <<<<<<"B">>, 1>>>>, <<>>, <<>>)),
            File(TRUE, FALSE, BlankScan),
            File(FALSE, TRUE, Scan(Instant(WindowNow - 1), <<>>, <<>>, <<>>, <<>>))}

InitWindow ==
    /\ dataDir \in {NoDir}
                     \cup {Dir(TRUE, fs, 0) : fs \in SeqsUpTo(WindowFiles, MaxFiles)}
    /\ now = WindowNow
    /\ hours \in {1, 24, 48}
    /\ pc = "loadScans"
    /\ limit = <<>>
    /\ scans = Undefined /\ allScans = Undefined /\ sentiment = Undefined
    /\ regime = Undefined /\ tickers = Undefined /\ commodities = Undefined
    /\ fear = Undefined /\ momentum = Undefined /\ narrative = Undefined

NextWindow == LoadScans

SpecWindow == InitWindow /\ [][NextWindow]_vars

\* How many times x occurs in the sequence s.
Occurrences(x, s) == Cardinality({i \in 1..Len(s) : s[i] = x})

\* The snapshots of the store: the content of its *.json files that parse.
StoreSnapshots ==
    [i \in {k \in 1..Len(dataDir.files) :
              dataDir.files[k].json /\ dataDir.files[k].parses} |->
       dataDir.files[i].data]

\* C5: loadScans(h) returns only snapshots of the store, each with a timestamp
\* that parses and is at least now - h hours, in ascending order of timestamp;
\* a snapshot whose timestamp is missing or does not parse is never returned,
\* and an empty or missing store gives the empty list.
C5_WindowSubsetSorted ==
    pc = "loadAllScans" =>
      /\ \A i \in 1..Len(scans) :
           /\ Occurrences(scans[i], scans)
                <= Cardinality({k \in DOMAIN StoreSnapshots :
                                  StoreSnapshots[k] = scans[i]})
           /\ scans[i].timestamp.text = "date"
           /\ scans[i].timestamp.ms >= now - hours * 3600000
      /\ \A i, j \in 1..Len(scans) :
           i < j => scans[i].timestamp.ms <= scans[j].timestamp.ms
      /\ (~dataDir.exists \/ dataDir.files = <<>>) => scans = <<>>

\* A window of 24 hours was loaded from a store of three snapshots written
\* out of order, one of them without a timestamp: the two dated ones came
\* back, the earlier first.
C5_Witness ==
    /\ pc = "loadAllScans"
    /\ hours = 24
    /\ Len(dataDir.files) = 3
    /\ dataDir.files[1].data.timestamp = Instant(WindowNow - 1)
    /\ dataDir.files[2].data.timestamp = MissingTimestamp
    /\ dataDir.files[3].data.timestamp = Instant(WindowNow - (24 * MsPerHour))
    /\ \A k \in 1..3 : dataDir.files[k].json /\ dataDir.files[k].parses
    /\ Len(scans) = 2
    /\ scans[1] = dataDir.files[3].data
    /\ scans[2] = dataDir.files[1].data

-----------------------------------------------------------------------------
(* The momentum detector on bounded histories *)

\* How far the sizes of the history and of the recent window go below and
\* above the guard's 40 and 10.
SizeSlack == 1

\* The largest count of a ticker in one snapshot.
MaxExtra == 7

\* The pairs of a snapshot that names ticker with count n: none when n = 0.
PairOf(ticker, n) == IF n = 0 THEN <<>> ELSE <<<<ticker, n>>>>

\* A history as loadAllScans returns it and its recent window as loadScans
\* does.  The window has nRecent snapshots, later than the others; the first
\* of them names B y times, the others "$B" rf times each.  Of the older
\* snapshots the first names B x times and E e times, the others B pf times
\* each.  u snapshots have no timestamp and name B twice; the sort leaves
\* them where the directory had them, here last.
History(nAll, nRecent, pf, rf, x, y, e, u) ==
    LET nPrior  == nAll - nRecent - u
        prior   == [i \in 1..nPrior |->
                      Scan(Instant(i), <<>>,
                           IF i = 1 THEN PairOf(<<"B">>, x) \o PairOf(<<"E">>, e)
                           ELSE PairOf(<<"B">>, pf),
                           <<>>, <<>>)]
        recent  == [i \in 1..nRecent |->
                      Scan(Instant(1000 + i), <<>>,
                           IF i = 1 THEN PairOf(<<"B">>, y)
                           ELSE PairOf(<<Marker, "B">>, rf),
                           <<>>, <<>>)]
        undated == [i \in 1..u |->
                      Scan(MissingTimestamp, <<>>, PairOf(<<"B">>, 2), <<>>, <<>>)]
    IN  [all |-> prior \o recent \o undated, recent |-> recent]

Histories ==
    {History(nAll, nRecent, pf, rf, x, y, e, u) :
        nAll \in (MinAllScans - SizeSlack)..(MinAllScans + SizeSlack),
        nRecent \in (MinRecentScans - SizeSlack)..(MinRecentScans + SizeSlack),
        pf \in {0, 1}, rf \in {0, 1}, x \in 0..MaxExtra, y \in 0..MaxExtra,
        e \in {0, 6}, u \in {0, 1}}

InitMomentum ==
    /\ \E h \in Histories : allScans = h.all /\ scans = h.recent
    /\ pc = "getMomentum"
    /\ dataDir = NoDir /\ now = 0 /\ hours = 24 /\ limit = <<>>
    /\ sentiment = Undefined /\ regime = Undefined /\ tickers = Undefined
    /\ commodities = Undefined /\ fear = Undefined /\ momentum = Undefined
    /\ narrative = Undefined

NextMomentum == GetMomentum

SpecMomentum == InitMomentum /\ [][NextMomentum]_vars

\* The guard of getMomentum did not apply.
GuardPassed == Len(allScans) >= 40 /\ Len(scans) >= 10

\* The snapshots of the full history at or after the first recent snapshot,
\* and the others.
RecentBucket ==
    SelectSeq(allScans,
              LAMBDA d : TimeGE(getTime(d.timestamp), getTime(scans[1].timestamp)))
PriorBucket ==
    SelectSeq(allScans,
              LAMBDA d : ~TimeGE(getTime(d.timestamp), getTime(scans[1].timestamp)))

\* The mention totals of a normalized ticker in the two buckets.
RecentCount(t) == TotalOf(t, AllPairs(RecentBucket))
PriorCount(t) == TotalOf(t, AllPairs(PriorBucket))

\* The denominator of priorRate: the snapshots outside the window, 1 if none.
PriorLen ==
    IF Len(allScans) - Len(scans) = 0 THEN 1 ELSE Len(allScans) - Len(scans)

\* The positions of the entries of the result for ticker t.
EntriesOf(t) == {i \in 1..Len(momentum) : momentum[i].ticker = t}

\* n / d rounded to the nearest integer, a half away from zero (d > 0).
Rounded(n, d) ==
    IF n < 0 THEN 0 - ((2 * (0 - n) + d) \div (2 * d)) ELSE (2 * n + d) \div (2 * d)

\* (recentRate - priorRate) / priorRate * 100 of ticker t, rounded, with
\* recentRate = RecentCount / |scans| and priorRate = PriorCount / PriorLen.
ChangeOf(t) ==
    Rounded(100 * (RecentCount(t) * PriorLen - PriorCount(t) * Len(scans)),
            PriorCount(t) * Len(scans))

\* C2: when the guard passes, every ticker with no prior mentions and at
\* least 3 recent ones is in the result with change 999 and direction "new".
C2_NewTickerIncluded ==
    (pc = "generateNarrative" /\ GuardPassed) =>
      \A t \in NamesOf(AllPairs(allScans)) :
        (PriorCount(t) = 0 /\ RecentCount(t) >= 3) =>
          \E i \in EntriesOf(t) :
            momentum[i].change = 999 /\ momentum[i].direction = "new"

\* C3: the result is empty whenever the history has fewer than 40 snapshots
\* or the window fewer than 10, whatever they contain; with 40 and 10 the
\* guard does not apply: a ticker with 5 or more mentions, all recent, is
\* reported.
C3_Guard ==
    pc = "generateNarrative" =>
      /\ (Len(allScans) < 40 \/ Len(scans) < 10) => momentum = <<>>
      /\ (/\ Len(allScans) >= 40 /\ Len(scans) >= 10
          /\ \E t \in NamesOf(AllPairs(allScans)) :
               PriorCount(t) = 0 /\ RecentCount(t) >= 5)
           => momentum # <<>>

\* A history of 39 snapshots with a window of 10 gave the empty result,
\* though a ticker has 5 or more mentions, all of them recent.
C3_Witness ==
    /\ pc = "generateNarrative"
    /\ Len(allScans) = 39 /\ Len(scans) = 10
    /\ PriorCount(<<"B">>) = 0 /\ RecentCount(<<"B">>) >= 5
    /\ momentum = <<>>

\* C4: for every ticker with priorRate > 0 and recentCount + priorCount >= 5,
\* change is (recentRate - priorRate) / priorRate * 100 rounded to an integer;
\* the ticker is in the result iff |change| > 30, with that change and with
\* direction "up" when change > 0 and "down" when change < 0.
C4_ChangeThreshold ==
    (pc = "generateNarrative" /\ GuardPassed) =>
      \A t \in NamesOf(AllPairs(allScans)) :
        (PriorCount(t) > 0 /\ PriorLen > 0 /\ RecentCount(t) + PriorCount(t) >= 5) =>
          /\ (EntriesOf(t) # {}) <=> (Abs(ChangeOf(t)) > 30)
          /\ Cardinality(EntriesOf(t)) <= 1
          /\ \A i \in EntriesOf(t) :
               /\ momentum[i].change = ChangeOf(t)
               /\ momentum[i].direction = (IF ChangeOf(t) > 0 THEN "up" ELSE "down")
               /\ momentum[i].direction = "down" => ChangeOf(t) < 0

\* With 30 older snapshots and 10 recent ones, B has 30 prior mentions and 13
\* recent ones: recentRate is 1.3 times priorRate, change is 30, and B is not
\* in the result.
C4_Witness ==
    /\ pc = "generateNarrative"
    /\ Len(allScans) = 40 /\ Len(scans) = 10
    /\ PriorCount(<<"B">>) = 30 /\ RecentCount(<<"B">>) = 13
    /\ ChangeOf(<<"B">>) = 30
    /\ EntriesOf(<<"B">>) = {}

-----------------------------------------------------------------------------
(* The server: requests to GET /api/brief while the scanner changes the     *)
(* directory                                                                *)

\* How many times the directory changes under the server.
MaxChanges == 1

\* The clock of the server runs: the 24-hour cutoff is the instant 1000, just
\* before the recent snapshots of History.
ServerNow == (24 * MsPerHour) + 1000

\* The directory that holds the snapshots ss, one *.json file each.
StoreOf(ss) == Dir(TRUE, [i \in 1..Len(ss) |-> File(TRUE, TRUE, ss[i])], 0)

\* A recent snapshot with the sentiment (bullish, bearish), gold named g times
\* and ticker B named n times.
RecentScan(i, bullish, bearish, g, n) ==
    Scan(Instant(1000 + i), <<[bullish |-> bullish, bearish |-> bearish]>>,
         PairOf(<<Marker, "B">>, n), PairOf("gold", g), <<>>)

\* The directories the server starts with: none, an empty one, small ones
\* with sentiment and commodities, and histories long enough for getMomentum.
Stores ==
    {NoDir, StoreOf(<<>>)}
      \cup {StoreOf(<<RecentScan(1, b, r, g, 5), RecentScan(2, b, 0, 0, 0)>>) :
              b \in {0, 60}, r \in {0, 20}, g \in {0, 7, 12}}
      \cup {StoreOf(History(nAll, 10, 1, 1, 1, y, e, u).all) :
              nAll \in {39, 40, 41}, y \in {4, 7}, e \in {0, 6}, u \in {0, 1}}

\* What the scanner writes: a file with a fresh snapshot, or with one that has
\* no timestamp.
NewFiles ==
    {File(TRUE, TRUE, RecentScan(20, 60, 20, 7, 3)),
     File(TRUE, TRUE, Scan(MissingTimestamp, <<>>, PairOf(<<"B">>, 2), <<>>, <<>>))}

Init ==
    /\ dataDir \in Stores
    /\ now = ServerNow
    /\ pc = "idle"
    /\ hours = 24 /\ limit = <<>>
    /\ scans = Undefined /\ allScans = Undefined /\ sentiment = Undefined
    /\ regime = Undefined /\ tickers = Undefined /\ commodities = Undefined
    /\ fear = Undefined /\ momentum = Undefined /\ narrative = Undefined

\* A request arrives: const hours = parseInt(req.query.hours) || 24;
Request ==
    /\ pc = "idle"
    /\ hours' \in {1, 24}
    /\ pc' = "loadScans"
    /\ scans' = Undefined /\ allScans' = Undefined /\ sentiment' = Undefined
    /\ regime' = Undefined /\ tickers' = Undefined /\ commodities' = Undefined
    /\ fear' = Undefined /\ momentum' = Undefined /\ narrative' = Undefined
    /\ UNCHANGED <<dataDir, now, limit>>

\* res.json({...}): the request is over.
Respond ==
    /\ pc = "done"
    /\ pc' = "idle"
    /\ UNCHANGED <<dataDir, now, hours, limit, scans, allScans, sentiment, regime,
                   tickers, commodities, fear, momentum, narrative>>

\* Another process adds a file to the directory.
WriteFile ==
    /\ dataDir.exists
    /\ dataDir.changes < MaxChanges
    /\ \E f \in NewFiles :
         dataDir' = Dir(TRUE, Append(dataDir.files, f), dataDir.changes + 1)
    /\ UNCHANGED <<now, pc, hours, limit, scans, allScans, sentiment, regime, tickers,
                   commodities, fear, momentum, narrative>>

\* Another process removes the newest or the oldest file of the directory.
RemoveFile ==
    /\ dataDir.exists
    /\ dataDir.files # <<>>
    /\ dataDir.changes < MaxChanges
    /\ \E fs \in {Tail(dataDir.files), SubSeq(dataDir.files, 1, Len(dataDir.files) - 1)} :
         dataDir' = Dir(TRUE, fs, dataDir.changes + 1)
    /\ UNCHANGED <<now, pc, hours, limit, scans, allScans, sentiment, regime, tickers,
                   commodities, fear, momentum, narrative>>

Next ==
    \/ Request
    \/ LoadScans
    \/ LoadAllScans
    \/ AnalyzeSentiment
    \/ GetRegimeLabel
    \/ GetTopTickers
    \/ GetCommodities
    \/ GetFearLevel
    \/ GetMomentum
    \/ GenerateNarrative
    \/ Respond
    \/ WriteFile
    \/ RemoveFile

Spec == Init /\ [][Next]_vars

-----------------------------------------------------------------------------
(* The denominators of the two rates in a request *)

\* The snapshots of the full history that are dated before the first recent
\* snapshot.
EarlierBucket ==
    SelectSeq(allScans,
              LAMBDA d : /\ getTime(d.timestamp) # TimeNaN
                         /\ getTime(scans[1].timestamp) # TimeNaN
                         /\ getTime(d.timestamp) < getTime(scans[1].timestamp))

\* C11: in every request that computes momentum the denominator of recentRate
\* is the number of snapshots of the full history dated at or after
\* recentStart, the denominator of priorRate is the number of those dated
\* before recentStart, or 1 when there are none, and neither is zero or
\* negative; whatever the directory holds and however it changes between the
\* two reads of the request.
C11_Denominators ==
    (pc = "generateNarrative" /\ GuardPassed) =>
      /\ Len(scans) = Len(RecentBucket)
      /\ PriorDenominator(Len(allScans), Len(scans)) =
           (IF Len(EarlierBucket) = 0 THEN 1 ELSE Len(EarlierBucket))
      /\ Len(scans) > 0
      /\ PriorDenominator(Len(allScans), Len(scans)) > 0

-----------------------------------------------------------------------------
(* Snapshots without a usable timestamp in the momentum detector *)

\* The full history without the snapshots whose timestamp is missing or does
\* not parse.
DatedScans == SelectSeq(allScans, LAMBDA d : getTime(d.timestamp) # TimeNaN)

\* The two counting objects of getMomentum for the history all.
BucketsOf(all) ==
    Buckets([recent |-> <<>>, prior |-> <<>>], all, getTime(scans[1].timestamp))

\* The tickers of a result.
TickersIn(result) == {result[i].ticker : i \in 1..Len(result)}

\* C12: a snapshot whose timestamp is missing or does not parse is dropped
\* from the momentum computation: its ticker counts go to neither bucket, so
\* recentCount and priorCount of every ticker are those of the dated
\* snapshots, and the tickers of the result are those of the history without
\* such snapshots.
C12_UndatedDropped ==
    (pc = "generateNarrative" /\ GuardPassed) =>
      /\ \A t \in NamesOf(AllPairs(allScans)) :
           /\ CountOf(BucketsOf(allScans).recent, t) = CountOf(BucketsOf(DatedScans).recent, t)
           /\ CountOf(BucketsOf(allScans).prior, t) = CountOf(BucketsOf(DatedScans).prior, t)
           /\ CountOf(BucketsOf(allScans).prior, t) = TotalOf(t, AllPairs(EarlierBucket))
      /\ Len(DatedScans) >= MinAllScans =>
           TickersIn(momentum) = TickersIn(getMomentum(DatedScans, scans))

-----------------------------------------------------------------------------
(* The momentum detector on histories with many tickers *)

\* The largest number of tickers of a history.
MaxCapTickers == 13

\* What a ticker can be: <<prior mentions, recent mentions>>.  With 30 older
\* snapshots and 10 recent ones the first five give the changes 999 (new),
\* 800, -100, 50 and 100; the sixth gives 0 and is not reported.
CapProfiles == << <<0, 5>>, <<3, 9>>, <<30, 0>>, <<6, 3>>, <<9, 6>>, <<6, 2>> >>

\* The profile of ticker i: the reported profiles in turn from rot on, but
\* profile q for ticker j.
ProfileOf(i, rot, j, q) ==
    IF i = j THEN CapProfiles[q] ELSE CapProfiles[((i + rot) % 5) + 1]

\* The symbol of ticker i: T1, T2, ...
CapTicker(i) == <<"T">> \o NatToChars(i)

\* A history of 30 older snapshots and 10 recent ones with n tickers.  The
\* first older snapshot holds the prior mentions of all of them, the first
\* recent snapshot the recent mentions, with "$" before every second symbol.
CapHistory(n, rot, j, q) ==
    LET priorPairs  == SelectSeq([i \in 1..n |-> <<CapTicker(i), ProfileOf(i, rot, j, q)[1]>>],
                                 LAMBDA pr : pr[2] > 0)
        recentPairs == SelectSeq([i \in 1..n |->
                                    <<IF i % 2 = 0 THEN <<Marker>> \o CapTicker(i)
                                      ELSE CapTicker(i),
                                      ProfileOf(i, rot, j, q)[2]>>],
                                 LAMBDA pr : pr[2] > 0)
        prior  == [i \in 1..(MinAllScans - MinRecentScans) |->
                     Scan(Instant(i), <<>>, IF i = 1 THEN priorPairs ELSE <<>>, <<>>, <<>>)]
        recent == [i \in 1..MinRecentScans |->
                     Scan(Instant(1000 + i), <<>>, IF i = 1 THEN recentPairs ELSE <<>>,
                          <<>>, <<>>)]
    IN  [all |-> prior \o recent, recent |-> recent]

CapHistories ==
    {CapHistory(n, rot, j, q) :
        n \in (MaxCapTickers - 2)..MaxCapTickers, rot \in 0..4,
        j \in 1..MaxCapTickers, q \in 1..6}

InitMomentumCap ==
    /\ \E h \in CapHistories : allScans = h.all /\ scans = h.recent
    /\ pc = "getMomentum"
    /\ dataDir = NoDir /\ now = 0 /\ hours = 24 /\ limit = <<>>
    /\ sentiment = Undefined /\ regime = Undefined /\ tickers = Undefined
    /\ commodities = Undefined /\ fear = Undefined /\ momentum = Undefined
    /\ narrative = Undefined

NextMomentumCap == GetMomentum

SpecMomentumCap == InitMomentumCap /\ [][NextMomentumCap]_vars

\* Whether ticker t passes the noise floor and one of the two inclusion
\* tests, and the |change| it is ranked by: 999 with no prior mentions.
Qualifies(t) ==
    /\ RecentCount(t) + PriorCount(t) >= 5
    /\ IF PriorCount(t) > 0 THEN Abs(ChangeOf(t)) > 30 ELSE RecentCount(t) >= 3
Magnitude(t) == IF PriorCount(t) > 0 THEN Abs(ChangeOf(t)) ELSE 999
Qualifying == {t \in NamesOf(AllPairs(allScans)) : Qualifies(t)}

\* C13: the result has at most 12 entries, names each ticker at most once
\* and is ordered by |change| from the largest down, a "new" entry ranking
\* by 999; every entry is a qualifying ticker; when more than 12 tickers
\* qualify, 12 are returned and no ticker left out has a larger |change|
\* than one returned; every entry has the fields ticker, recentRate,
\* priorRate, change and direction, with an integer change and a direction
\* among up, down and new.
C13_CappedRanking ==
    (pc = "generateNarrative" /\ GuardPassed) =>
      /\ Len(momentum) <= 12
      /\ \A i, k \in 1..Len(momentum) :
           i < k => /\ momentum[i].ticker # momentum[k].ticker
                    /\ Abs(momentum[i].change) >= Abs(momentum[k].change)
      /\ \A i \in 1..Len(momentum) :
           /\ momentum[i].ticker \in Qualifying
           /\ Abs(momentum[i].change) = Magnitude(momentum[i].ticker)
           /\ DOMAIN momentum[i] = {"ticker", "recentRate", "priorRate", "change", "direction"}
           /\ momentum[i].change \in Int
           /\ momentum[i].direction \in {"up", "down", "new"}
           /\ momentum[i].direction = "new" => momentum[i].change = 999
      /\ Cardinality(Qualifying) > 12 =>
           /\ Len(momentum) = 12
           /\ \A t \in Qualifying \ TickersIn(momentum) :
                \A i \in 1..Len(momentum) : Magnitude(t) <= Abs(momentum[i].change)

\* 13 tickers qualify and 12 are returned: the first is new, 100 and -100
\* are both there, the last has a |change| above 50, and the ticker left
\* out has |change| 50 though it is not the last ticker of the history.
C13_Witness ==
    /\ pc = "generateNarrative" /\ GuardPassed
    /\ Cardinality(Qualifying) = 13
    /\ Len(momentum) = 12
    /\ momentum[1].direction = "new"
    /\ \E i, k \in 1..12 : momentum[i].change = 100 /\ momentum[k].change = 0 - 100
    /\ Abs(momentum[12].change) > 50
    /\ \E t \in Qualifying \ TickersIn(momentum) :
         Magnitude(t) = 50 /\ t # CapTicker(13)

=============================================================================
